---- MODULE Spec2Model ----
(***************************************************************************)
(* Face-comparison service (src/server.js): the POST /compare handler, the *)
(* 30 s connection timeout installed by the first middleware, and the      *)
(* compareFaces pipeline with its nested timers.                           *)
(*                                                                         *)
(* Time is counted in ticks of 5 s, the greatest common divisor of the     *)
(* timer durations of the source (5 s, 15 s, 20 s, 25 s, 30 s).  A timer   *)
(* that is due fires before time advances; an event of the environment may *)
(* happen at the same tick either before or after a due timer.             *)
(* Distances are fixed-point with five decimals, one more than toFixed(4)  *)
(* keeps, so the formatting of the result is a real rounding.              *)
(* resizeImage computes in double precision; its roundings are computed    *)
(* here from integer remainders, bit for bit.                              *)
(* A second request in flight is kept in `parked`; the actions work on the *)
(* request whose callbacks are running.                                    *)
(***************************************************************************)
EXTENDS Integers, Sequences, FiniteSets, TLC

\* ------------------------------------------------------------------ bounds
\* Last tick of the clock.
MaxTime == 13
\* Largest raw distance of the exhaustive grid, in 1e-5 units (1.2).
MaxDistance == 120000
\* Largest width and height of a decoded image of the exhaustive grid.
MaxSide == 450

\* ------------------------------------------------------- program constants
MsPerTick == 5 * 1000
\* A connection timeout of 20 s, shorter than the overall timer.
REQUEST_TIMEOUT_20s == 20000 \div MsPerTick
\* res.setTimeout(30000, ...)
REQUEST_TIMEOUT == 30000 \div MsPerTick
\* setTimeout(() => controller.abort(), 15000)
FETCH_TIMEOUT == 15000 \div MsPerTick
\* the two image-decode timers, 5000
DECODE_TIMEOUT == 5000 \div MsPerTick
\* the detection timer, 20000
DETECTION_TIMEOUT == 20000 \div MsPerTick
\* the overall timer of compareFaces, 25000
OVERALL_TIMEOUT == 25000 \div MsPerTick

\* 1.0 in distance units
DistScale == 10 * 10000
\* const threshold = 0.5
threshold == 50000
\* distance < 0.7 ? 'medium' : 'low'
mediumLimit == 70000

\* function resizeImage(img, maxSize = 416)
maxSize == 416
\* Bits of the significand of a double.
Precision == 53

\* A timer holds its deadline while it is armed; otherwise it is not armed
\* (never set, or cleared) or it has fired.
NoTimer == 0 - 1
Fired == 0 - 2

\* clearTimeout(t): an armed timer is disarmed, a fired one stays fired.
ClearTimeout(t) == IF t = Fired THEN Fired ELSE NoTimer

\* --------------------------------------------------------------- JS values
JsUndefined == [type |-> "undefined"]
JsString(s) == [type |-> "string", chars |-> s]
JsNumber(n) == [type |-> "number", num |-> n]
JsArray(n) == [type |-> "array", length |-> n]

\* JavaScript truthiness, as used by `!imageUrl || !base64Image`.
Truthy(v) ==
  CASE v.type = "undefined" -> FALSE
    [] v.type = "string" -> v.chars # <<>>
    [] v.type = "number" -> v.num # 0
    [] OTHER -> TRUE

\* String.prototype.startsWith on character sequences.
StartsWith(s, p) == Len(s) >= Len(p) /\ SubSeq(s, 1, Len(p)) = p

HttpPrefix == <<"h", "t", "t", "p", ":", "/", "/">>
HttpsPrefix == <<"h", "t", "t", "p", "s", ":", "/", "/">>

\* Values of imageUrl a JSON body can carry.
ImageUrlInputs ==
  { JsUndefined,
    JsString(<<>>),
    JsString(HttpPrefix \o <<"a">>),
    JsString(HttpsPrefix \o <<"a">>),
    JsString(<<"f", "t", "p", ":", "/", "/", "a">>),
    JsString(<<"h", "t", "t", "p", ":", "/">>),
    JsNumber(0),
    JsNumber(123) }

\* Values of base64Image a JSON body can carry.
Base64Inputs ==
  { JsUndefined,
    JsString(<<>>),
    JsString(<<"Q", "Q", "=", "=">>),
    JsNumber(7),
    JsArray(1) }

\* ------------------------------------------------------------------ errors
\* new Error(message): an error is identified with its message.
Error(m) == m
NoError == Error("")

\* `URL image error: HTTP ${response.status}: ${response.statusText}`
HttpError(s) ==
  IF s = 404 THEN Error("URL image error: HTTP 404: Not Found")
  ELSE Error("URL image error: HTTP 503: Service Unavailable")

\* Statuses a remote server answers a fetch with that are not response.ok.
NotOkStatuses == {404, 503}

\* Raw distances tried in the full pipeline (1e-5 units).
SampleDistances == {0, 32000, 49996, 50000, 69999, 70000, 100001}

\* ------------------------------------------------------------------ images
\* A decoded Image or a Canvas: its width and height.
Image(w, h) == [width |-> w, height |-> h]
NoImage == Image(0, 0)

\* Images decoded in the full pipeline, where the sizes play no part.
SampleImages == {Image(48, 27)}

\* floor(log2(n)) for n >= 1
RECURSIVE Log2(_)
Log2(n) == IF n < 2 THEN 0 ELSE 1 + Log2(n \div 2)

\* 2^k for k >= 0
RECURSIVE Pow2(_)
Pow2(k) == IF k = 0 THEN 1 ELSE 2 * Pow2(k - 1)

\* 2^k mod m
RECURSIVE Pow2Mod(_, _)
Pow2Mod(k, m) == IF k = 0 THEN 1 % m ELSE (2 * Pow2Mod(k - 1, m)) % m

\* The binary exponent a of maxSize / m: 2^a <= maxSize / m < 2^(a + 1).
RECURSIVE ScaleExponentFrom(_, _)
ScaleExponentFrom(a, m) ==
  IF a >= 0
  THEN IF Pow2(a + 1) * m <= maxSize THEN ScaleExponentFrom(a + 1, m) ELSE a
  ELSE IF m <= maxSize * Pow2(0 - a) THEN a ELSE ScaleExponentFrom(a - 1, m)

ScaleExponent(m) ==
  IF m <= maxSize THEN ScaleExponentFrom(0, m) ELSE ScaleExponentFrom(0 - 1, m)

\* `maxSize / m` is a double: the quotient rounded to Precision significant
\* bits.  The remainder of maxSize * 2^k by m, where k makes the quotient a
\* Precision-bit integer, tells how it was rounded: 0 when the quotient is
\* exact, less than m / 2 when it was rounded down, more when rounded up.
ScaleRemainder(m) ==
  ((maxSize % m) * Pow2Mod((Precision - 1) - ScaleExponent(m), m)) % m

\* Math.floor(x * scale) for scale = maxSize / m, both operations in double
\* precision.  The product is the real product rounded to Precision bits.  If
\* x * maxSize / m is no integer, it is farther from an integer than any
\* rounding error, and the floor is that of the real product.  If it is an
\* integer n and scale was rounded down, the product lies below n and is
\* rounded to n or to the double before n: to the latter when it is below n by
\* more than half the spacing of the doubles below n.
FloorScaled(x, m) ==
  LET n == (x * maxSize) \div m
      rem == ScaleRemainder(m)
      e == (Log2(n) - ScaleExponent(m)) - (IF n = Pow2(Log2(n)) THEN 2 ELSE 1)
      below == IF e >= 0 THEN x * rem > m * Pow2(e)
               ELSE x * rem * Pow2(0 - e) > m
  IN IF (x * maxSize) % m # 0 THEN n
     ELSE IF rem = 0 \/ 2 * rem > m THEN n
     ELSE IF below THEN n - 1 ELSE n

\* resizeImage(img): scale = Math.min(maxSize / width, maxSize / height), the
\* quotient by the longer side; the canvas has the floored scaled sides.
resizeImage(img) ==
  LET m == IF img.width >= img.height THEN img.width ELSE img.height
  IN Image(FloorScaled(img.width, m), FloorScaled(img.height, m))

VARIABLES
  now,              \* the clock, in ticks
  modelsLoaded,     \* let modelsLoaded
  body,             \* req.body of the request, once express.json has parsed it
  hpc,              \* position of the request in the middleware chain / handler
  path,             \* the branch the handler took ("" before it runs)
  res,              \* the response object: headersSent and what was written
  resTimeout,       \* deadline of res.setTimeout's socket timer
  startTime,        \* startTime of the handler
  cf,               \* the promise compareFaces returns
  cfStart,          \* startTime of compareFaces
  cpc,              \* position of the async body of compareFaces
  overallTimeout,   \* deadline of overallTimeout
  url,              \* loadImageFromUrl: position, promise state, error, image
  timeoutId,        \* deadline of the 15 s abort timer
  loadTimeout,      \* deadline of the decode timer of loadImageFromUrl
  b64,              \* loadImageFromBase64: position, promise state, error, image
  timeout,          \* deadline of the decode timer of loadImageFromBase64
  detection1,       \* detectSingleFace(img1)...
  detection2,       \* detectSingleFace(img2)...
  detectionTimeout, \* deadline of the 20 s detection timer
  detectStart,      \* detectStart of compareFaces
  distance,         \* faceapi.euclideanDistance(...), raw
  parked            \* the other request in flight: its id and its own state

vars == <<now, modelsLoaded, body, hpc, path, res, resTimeout, startTime, cf, cfStart,
          cpc, overallTimeout, url, timeoutId, loadTimeout, b64, timeout,
          detection1, detection2, detectionTimeout, detectStart, distance, parked>>

handlerVars == <<hpc, res, startTime>>
urlVars == <<url, timeoutId, loadTimeout>>
b64Vars == <<b64, timeout>>
detVars == <<detection1, detection2, detectionTimeout, detectStart, distance>>

\* ------------------------------------------------------------ the response
\* res.status(code).json(payload).  Once the headers are sent, Express refuses
\* the call (ERR_HTTP_HEADERS_SENT is thrown) and nothing more is written.
ResJsonUnchecked(r, code, payload) ==
  [headersSent |-> TRUE, sent |-> Append(r.sent, [status |-> code, body |-> payload])]

ResJson(r, code, payload) ==
  IF r.headersSent THEN r
  ELSE [headersSent |-> TRUE, sent |-> Append(r.sent, [status |-> code, body |-> payload])]

\* The callback of res.setTimeout.
TimeoutCallback(r) ==
  IF ~r.headersSent
  THEN ResJson(r, 408, [success |-> FALSE, error |-> "Request Timeout",
                        message |-> "Processing took too long (>30s)"])
  ELSE r

\* The catch block answering with the status of a validation failure.
HandlerCatchAs400(r, error, processingTime) ==
  IF ~r.headersSent
  THEN [headersSent |-> TRUE,
        sent |-> Append(r.sent, [status |-> 400,
                   body |-> [success |-> FALSE, error |-> "Face comparison failed",
                             message |-> error, processingTimeMs |-> processingTime]])]
  ELSE r

\* The catch block of the handler.
HandlerCatch(r, error, processingTime) ==
  IF ~r.headersSent
  THEN ResJson(r, 500, [success |-> FALSE, error |-> "Face comparison failed",
                        message |-> error, processingTimeMs |-> processingTime])
  ELSE r

\* res.json({...result, processingTimeMs: processingTime}) inside the try block:
\* a throw of res.json lands in the catch block, which then sends nothing.
HandlerSuccess(r, result, processingTime) ==
  ResJson(r, 200, [result EXCEPT !.processingTimeMs = processingTime])

\* --------------------------------------------- the handler's synchronous part
HasLength(v) == v.type \in {"string", "array"}

\* The handler without its check of modelsLoaded.
HandlerPathNoReadyCheck(loaded, b) ==
  IF ~Truthy(b.imageUrl) \/ ~Truthy(b.base64Image) THEN "400 missing"
  ELSE IF b.imageUrl.type # "string" THEN "TypeError startsWith"
  ELSE IF ~StartsWith(b.imageUrl.chars, HttpPrefix)
          /\ ~StartsWith(b.imageUrl.chars, HttpsPrefix) THEN "400 url"
  ELSE IF ~HasLength(b.base64Image) THEN "TypeError toLocaleString"
  ELSE "compare"

\* Which way the handler goes, from its first line to `await compareFaces`.
HandlerPath(loaded, b) ==
  IF ~loaded THEN "503"
  ELSE IF ~Truthy(b.imageUrl) \/ ~Truthy(b.base64Image) THEN "400 missing"
  ELSE IF b.imageUrl.type # "string" THEN "TypeError startsWith"
  ELSE IF ~StartsWith(b.imageUrl.chars, HttpPrefix)
          /\ ~StartsWith(b.imageUrl.chars, HttpsPrefix) THEN "400 url"
  ELSE IF ~HasLength(b.base64Image) THEN "TypeError toLocaleString"
  ELSE "compare"

\* ------------------------------------------------- the result of a comparison
Max(a, b) == IF a >= b THEN a ELSE b
Min(a, b) == IF a <= b THEN a ELSE b

\* Number.prototype.toFixed followed by parseFloat: x, in units of 1/scale,
\* rounded to units of 10/scale.
ToFixedDrop1(x) == (x + 5) \div 10

\* Math.max(0, Math.min(100, (1 - distance) * 100)), in 1e-3 units.
Similarity(d) == Max(0, Min(100 * 1000, ((DistScale - d) * 100) \div (DistScale \div 1000)))

Confidence(d) ==
  IF d < threshold THEN "high" ELSE IF d < mediumLimit THEN "medium" ELSE "low"

\* The result with `distance <= threshold` for the match.
CompareResultInclusive(d, totalTime) ==
  [success |-> TRUE,
   match |-> d <= threshold,
   distance |-> ToFixedDrop1(d),
   similarity |-> ToFixedDrop1(Similarity(d)),
   threshold |-> threshold,
   confidence |-> IF d <= threshold THEN "high"
                  ELSE IF d < mediumLimit THEN "medium" ELSE "low",
   processingTimeMs |-> totalTime]

\* The object of resolve({success: true, ...}); distance in 1e-4 units,
\* similarity in 1e-2 units, threshold in 1e-5 units.
CompareResult(d, totalTime) ==
  [success |-> TRUE,
   match |-> d < threshold,
   distance |-> ToFixedDrop1(d),
   similarity |-> ToFixedDrop1(Similarity(d)),
   threshold |-> threshold,
   confidence |-> Confidence(d),
   processingTimeMs |-> totalTime]

\* The no-face outcome with the two sides confused.
NoFaceResultSwapped(d1, d2, totalTime) ==
  [success |-> FALSE,
   match |-> FALSE,
   message |-> IF d1 = "none" /\ d2 = "none" THEN "No faces detected in both images"
               ELSE IF d2 = "none" THEN "No face detected in URL image"
               ELSE "No face detected in uploaded image",
   processingTimeMs |-> totalTime]

\* The object of resolve({success: false, match: false, message, ...}).
NoFaceResult(d1, d2, totalTime) ==
  [success |-> FALSE,
   match |-> FALSE,
   message |-> IF d1 = "none" /\ d2 = "none" THEN "No faces detected in both images"
               ELSE IF d1 = "none" THEN "No face detected in URL image"
               ELSE "No face detected in uploaded image",
   processingTimeMs |-> totalTime]

NoResult == [none |-> TRUE]

\* ------------------------------------------------------------------- state
Idle == [pc |-> "idle", state |-> "pending", error |-> NoError,
         img |-> NoImage, canvas |-> NoImage]

\* The state of a request that has not arrived: everything the middleware, the
\* handler and compareFaces keep in their own scopes.
NoRequest ==
  [body |-> [imageUrl |-> JsUndefined, base64Image |-> JsUndefined],
   hpc |-> "none", path |-> "", res |-> [headersSent |-> FALSE, sent |-> <<>>],
   resTimeout |-> NoTimer, startTime |-> 0,
   cf |-> [state |-> "idle", error |-> NoError, result |-> NoResult],
   cfStart |-> 0, cpc |-> "idle", overallTimeout |-> NoTimer,
   url |-> Idle, timeoutId |-> NoTimer, loadTimeout |-> NoTimer,
   b64 |-> Idle, timeout |-> NoTimer,
   detection1 |-> "idle", detection2 |-> "idle", detectionTimeout |-> NoTimer,
   detectStart |-> 0, distance |-> 0]

\* The state of the request whose callbacks are running.
Request ==
  [body |-> body, hpc |-> hpc, path |-> path, res |-> res,
   resTimeout |-> resTimeout, startTime |-> startTime, cf |-> cf,
   cfStart |-> cfStart, cpc |-> cpc, overallTimeout |-> overallTimeout,
   url |-> url, timeoutId |-> timeoutId, loadTimeout |-> loadTimeout,
   b64 |-> b64, timeout |-> timeout,
   detection1 |-> detection1, detection2 |-> detection2,
   detectionTimeout |-> detectionTimeout, detectStart |-> detectStart,
   distance |-> distance]

\* The request whose callbacks are running is r.
Running(r) ==
  /\ body = r.body /\ hpc = r.hpc /\ path = r.path /\ res = r.res
  /\ resTimeout = r.resTimeout /\ startTime = r.startTime /\ cf = r.cf
  /\ cfStart = r.cfStart /\ cpc = r.cpc /\ overallTimeout = r.overallTimeout
  /\ url = r.url /\ timeoutId = r.timeoutId /\ loadTimeout = r.loadTimeout
  /\ b64 = r.b64 /\ timeout = r.timeout
  /\ detection1 = r.detection1 /\ detection2 = r.detection2
  /\ detectionTimeout = r.detectionTimeout /\ detectStart = r.detectStart
  /\ distance = r.distance

Init ==
  /\ now = 0
  /\ modelsLoaded = FALSE
  /\ Running(NoRequest)
  /\ parked = [id |-> 2, state |-> NoRequest]

\* ------------------------------------------------- settling of compareFaces
\* A settling that overwrites an earlier one.
SettleOverwrite(st, err, result) ==
  IF cf.state # "idle"
  THEN /\ cf' = [state |-> st, error |-> err, result |-> result]
       /\ hpc' = "done"
       /\ res' = IF st = "resolved"
                 THEN HandlerSuccess(res, result, now - startTime)
                 ELSE HandlerCatch(res, err, now - startTime)
  ELSE UNCHANGED <<cf, hpc, res>>

\* resolve(...) or reject(...) of the promise of compareFaces.  A promise settles
\* once: later calls change nothing.  The handler awaits the promise, so its
\* continuation (res.json or the catch block) runs in the same turn.
Settle(st, err, result) ==
  IF cf.state = "pending"
  THEN /\ cf' = [state |-> st, error |-> err, result |-> result]
       /\ hpc' = "done"
       /\ res' = IF st = "resolved"
                 THEN HandlerSuccess(res, result, now - startTime)
                 ELSE HandlerCatch(res, err, now - startTime)
  ELSE UNCHANGED <<cf, hpc, res>>

\* The catch block of compareFaces: clearTimeout(overallTimeout); reject(error).
CompareCatch(err) ==
  /\ overallTimeout' = ClearTimeout(overallTimeout)
  /\ Settle("rejected", err, NoResult)
  /\ cpc' = "caught"

\* The continuation with the detection timer counted from the entry of
\* compareFaces.
AfterLoadBudgetFromEntry(u, b, err) ==
  IF cpc # "loading" THEN UNCHANGED <<cpc, cf, hpc, res, overallTimeout, detVars>>
  ELSE IF u = "rejected" \/ b = "rejected"
  THEN CompareCatch(err) /\ UNCHANGED detVars
  ELSE IF u = "fulfilled" /\ b = "fulfilled"
  THEN /\ cpc' = "detecting"
       /\ detection1' = "pending"
       /\ detection2' = "pending"
       /\ detectStart' = now
       /\ detectionTimeout' = cfStart + DETECTION_TIMEOUT
       /\ UNCHANGED <<cf, hpc, res, overallTimeout, distance>>
  ELSE UNCHANGED <<cpc, cf, hpc, res, overallTimeout, detVars>>

\* The continuation launching detection as soon as one image is loaded.
AfterLoadEager(u, b, err) ==
  IF cpc # "loading" THEN UNCHANGED <<cpc, cf, hpc, res, overallTimeout, detVars>>
  ELSE IF u = "rejected" \/ b = "rejected"
  THEN CompareCatch(err) /\ UNCHANGED detVars
  ELSE IF u = "fulfilled" \/ b = "fulfilled"
  THEN /\ cpc' = "detecting"
       /\ detection1' = "pending"
       /\ detection2' = "pending"
       /\ detectStart' = now
       /\ detectionTimeout' = now + DETECTION_TIMEOUT
       /\ UNCHANGED <<cf, hpc, res, overallTimeout, distance>>
  ELSE UNCHANGED <<cpc, cf, hpc, res, overallTimeout, detVars>>

\* What follows `await Promise.all([loadImageFromUrl, loadImageFromBase64])` when
\* the two promises are in states u and b; err is the error of a rejection made
\* in this step.  Promise.all rejects with the first rejection and fulfils when
\* both are fulfilled; detection is then launched with its 20 s timer.
AfterLoad(u, b, err) ==
  IF cpc # "loading" THEN UNCHANGED <<cpc, cf, hpc, res, overallTimeout, detVars>>
  ELSE IF u = "rejected" \/ b = "rejected"
  THEN CompareCatch(err) /\ UNCHANGED detVars
  ELSE IF u = "fulfilled" /\ b = "fulfilled"
  THEN /\ cpc' = "detecting"
       /\ detection1' = "pending"
       /\ detection2' = "pending"
       /\ detectStart' = now
       /\ detectionTimeout' = now + DETECTION_TIMEOUT
       /\ UNCHANGED <<cf, hpc, res, overallTimeout, distance>>
  ELSE UNCHANGED <<cpc, cf, hpc, res, overallTimeout, detVars>>

\* ------------------------------------------------------------ server start
\* loadModels(): the three nets are loaded, then modelsLoaded = true.
LoadModels ==
  /\ ~modelsLoaded
  /\ modelsLoaded' = TRUE
  /\ UNCHANGED <<now, parked, body, hpc, path, res, resTimeout, startTime, cf, cfStart, cpc,
                 overallTimeout, urlVars, b64Vars, detVars>>

\* ------------------------------------------------------------- the request
\* The first middleware: res.setTimeout(30000, callback); next().  The body is
\* then read by express.json().
Arrive ==
  /\ hpc = "none"
  /\ \E u \in ImageUrlInputs, b \in Base64Inputs :
       body' = [imageUrl |-> u, base64Image |-> b]
  /\ hpc' = "parsing"
  /\ resTimeout' = now + REQUEST_TIMEOUT
  /\ UNCHANGED <<now, modelsLoaded, parked, path, res, startTime, cf, cfStart, cpc,
                 overallTimeout, urlVars, b64Vars, detVars>>

\* The socket timeout is an inactivity timeout: a part of the body arriving
\* restarts it.
BodyChunk ==
  /\ hpc = "parsing"
  /\ resTimeout # now + REQUEST_TIMEOUT
  /\ resTimeout' = now + REQUEST_TIMEOUT
  /\ UNCHANGED <<now, modelsLoaded, parked, body, path, hpc, res, startTime, cf, cfStart, cpc,
                 overallTimeout, urlVars, b64Vars, detVars>>

\* express.json() refuses the body (malformed JSON: 400; larger than the 10mb
\* limit: 413): the error goes to Express's error handling, which answers with
\* the error's status unless the headers are already sent.  The handler of
\* /compare is not run.
BodyParseFails ==
  /\ hpc = "parsing"
  /\ hpc' = "done"
  /\ path' = "body-parser error"
  /\ resTimeout' = now + REQUEST_TIMEOUT
  /\ \E code \in {400, 413} :
       res' = ResJson(res, code, [error |-> "body-parser error"])
  /\ UNCHANGED <<now, modelsLoaded, parked, body, startTime, cf, cfStart, cpc,
                 overallTimeout, urlVars, b64Vars, detVars>>

\* The 30 s timer fires: the callback of res.setTimeout.
RequestTimeout ==
  /\ resTimeout = now
  /\ resTimeout' = Fired
  /\ res' = TimeoutCallback(res)
  /\ UNCHANGED <<now, modelsLoaded, parked, body, path, hpc, startTime, cf, cfStart, cpc,
                 overallTimeout, urlVars, b64Vars, detVars>>

\* The handler returns before compareFaces: 503, 400, or a TypeError caught by
\* its catch block.
HandlerReject ==
  /\ hpc = "parsing"
  /\ HandlerPath(modelsLoaded, body) # "compare"
  /\ hpc' = "done"
  /\ startTime' = now
  /\ resTimeout' = now + REQUEST_TIMEOUT
  /\ res' = CASE HandlerPath(modelsLoaded, body) = "503" ->
                   ResJson(res, 503, [success |-> FALSE, error |-> "Service Unavailable",
                     message |-> "Models are still loading. Try again in a moment."])
              [] HandlerPath(modelsLoaded, body) = "400 missing" ->
                   ResJson(res, 400, [success |-> FALSE, error |-> "Missing required field",
                     message |-> "'imageUrl and base64Image' is required"])
              [] HandlerPath(modelsLoaded, body) = "400 url" ->
                   ResJson(res, 400, [success |-> FALSE, error |-> "Invalid URL",
                     message |-> "imageUrl must start with http:// or https://"])
              [] HandlerPath(modelsLoaded, body) = "TypeError startsWith" ->
                   HandlerCatch(res, Error("imageUrl.startsWith is not a function"), 0)
              [] OTHER ->
                   HandlerCatch(res, Error("Cannot read properties of undefined"), 0)
  /\ path' = HandlerPath(modelsLoaded, body)
  /\ UNCHANGED <<now, modelsLoaded, parked, body, cf, cfStart, cpc, overallTimeout,
                 urlVars, b64Vars, detVars>>

\* `const result = await compareFaces(imageUrl, base64Image)` up to the first
\* suspension: the overall timer is armed, the fetch is issued with its abort
\* timer, and loadImageFromBase64 runs to its decode promise.  A base64Image
\* that is no string makes base64String.replace throw inside loadImageFromBase64,
\* whose catch block rejects with "Base64 error: ...".
HandlerCompare ==
  /\ hpc = "parsing"
  /\ HandlerPath(modelsLoaded, body) = "compare"
  /\ now + OVERALL_TIMEOUT < MaxTime
  /\ startTime' = now
  /\ cfStart' = now
  /\ resTimeout' = now + REQUEST_TIMEOUT
  /\ url' = [Idle EXCEPT !.pc = "fetch"]
  /\ timeoutId' = now + FETCH_TIMEOUT
  /\ loadTimeout' = NoTimer
  /\ path' = "compare"
  /\ UNCHANGED <<now, modelsLoaded, parked, body, detVars>>
  /\ IF body.base64Image.type = "string"
     THEN /\ \E i \in SampleImages : b64' = [Idle EXCEPT !.pc = "decode", !.img = i]
          /\ timeout' = now + DECODE_TIMEOUT
          /\ cf' = [state |-> "pending", error |-> NoError, result |-> NoResult]
          /\ hpc' = "awaiting"
          /\ cpc' = "loading"
          /\ overallTimeout' = now + OVERALL_TIMEOUT
          /\ UNCHANGED res
     ELSE /\ b64' = [Idle EXCEPT !.pc = "failed", !.state = "rejected",
                       !.error = Error("Base64 error: base64String.replace is not a function")]
          /\ timeout' = NoTimer
          /\ cf' = [state |-> "rejected", error |-> b64'.error, result |-> NoResult]
          /\ hpc' = "done"
          /\ cpc' = "caught"
          /\ overallTimeout' = NoTimer
          /\ res' = HandlerCatch(res, b64'.error, 0)

\* -------------------------------------------------------- loadImageFromUrl
\* The promise of loadImageFromUrl is rejected with err (if still pending).
UrlReject(pc, err) ==
  /\ url' = [url EXCEPT !.pc = pc,
                        !.state = IF @ = "pending" THEN "rejected" ELSE @,
                        !.error = IF url.state = "pending" THEN err ELSE @]
  /\ IF url.state = "pending"
     THEN AfterLoad("rejected", b64.state, err)
     ELSE UNCHANGED <<cpc, cf, hpc, res, overallTimeout, detVars>>

\* fetch resolves with a response: clearTimeout(timeoutId); a response that is
\* not ok is thrown as an HTTP error and rethrown by the catch block.
FetchResponds ==
  /\ url.pc = "fetch"
  /\ timeoutId' = ClearTimeout(timeoutId)
  /\ \/ /\ url' = [url EXCEPT !.pc = "body"]
        /\ UNCHANGED <<cpc, cf, hpc, res, overallTimeout, detVars>>
     \/ \E s \in NotOkStatuses : UrlReject("failed", HttpError(s))
  /\ UNCHANGED <<now, modelsLoaded, parked, body, path, resTimeout, startTime, cfStart,
                 loadTimeout, b64Vars>>

\* fetch rejects with a network error.
FetchFails ==
  /\ url.pc = "fetch"
  /\ timeoutId' = ClearTimeout(timeoutId)
  /\ UrlReject("failed", Error("URL image error: request failed"))
  /\ UNCHANGED <<now, modelsLoaded, parked, body, path, resTimeout, startTime, cfStart,
                 loadTimeout, b64Vars>>

\* The 15 s timer fires: controller.abort(), fetch rejects with an AbortError.
FetchTimeout ==
  /\ timeoutId = now
  /\ timeoutId' = Fired
  /\ UrlReject("failed", Error("URL fetch timeout (15s)"))
  /\ UNCHANGED <<now, modelsLoaded, parked, body, path, resTimeout, startTime, cfStart,
                 loadTimeout, b64Vars>>

\* response.arrayBuffer() resolves: the decode promise is created, its 5 s
\* timer armed, and img.src set to the bytes, which are those of some image.
BodyArrives ==
  /\ url.pc = "body"
  /\ \E i \in SampleImages : url' = [url EXCEPT !.pc = "decode", !.img = i]
  /\ loadTimeout' = now + DECODE_TIMEOUT
  /\ UNCHANGED <<now, modelsLoaded, parked, body, path, hpc, res, resTimeout, startTime, cf,
                 cfStart, cpc, overallTimeout, timeoutId, b64Vars, detVars>>

\* response.arrayBuffer() rejects (the connection breaks during the transfer).
BodyFails ==
  /\ url.pc = "body"
  /\ UrlReject("failed", Error("URL image error: body transfer failed"))
  /\ UNCHANGED <<now, modelsLoaded, parked, body, path, resTimeout, startTime, cfStart,
                 timeoutId, loadTimeout, b64Vars>>

\* img.onload settling the promise again after the decode timer rejected it.
UrlOnloadResettle ==
  /\ url.pc = "decode"
  /\ loadTimeout' = ClearTimeout(loadTimeout)
  /\ url' = [url EXCEPT !.pc = "done",
                        !.state = "fulfilled",
                        !.canvas = IF url.state = "pending" THEN resizeImage(url.img) ELSE @]
  /\ IF url.state = "pending"
     THEN AfterLoad("fulfilled", b64.state, NoError)
     ELSE UNCHANGED <<cpc, cf, hpc, res, overallTimeout, detVars>>
  /\ UNCHANGED <<now, modelsLoaded, parked, body, path, resTimeout, startTime, cfStart,
                 timeoutId, b64Vars>>

\* img.onload: clearTimeout(loadTimeout); resolve(resizeImage(img)).
UrlOnload ==
  /\ url.pc = "decode"
  /\ loadTimeout' = ClearTimeout(loadTimeout)
  /\ url' = [url EXCEPT !.pc = "done",
                        !.state = IF @ = "pending" THEN "fulfilled" ELSE @,
                        !.canvas = IF url.state = "pending" THEN resizeImage(url.img) ELSE @]
  /\ IF url.state = "pending"
     THEN AfterLoad("fulfilled", b64.state, NoError)
     ELSE UNCHANGED <<cpc, cf, hpc, res, overallTimeout, detVars>>
  /\ UNCHANGED <<now, modelsLoaded, parked, body, path, resTimeout, startTime, cfStart,
                 timeoutId, b64Vars>>

\* img.onerror: clearTimeout(loadTimeout); reject.
UrlOnerror ==
  /\ url.pc = "decode"
  /\ loadTimeout' = ClearTimeout(loadTimeout)
  /\ UrlReject("done", Error("Failed to decode URL image"))
  /\ UNCHANGED <<now, modelsLoaded, parked, body, path, resTimeout, startTime, cfStart,
                 timeoutId, b64Vars>>

\* The decode timer fires: reject; the decode itself is not cancelled.
UrlDecodeTimeout ==
  /\ loadTimeout = now
  /\ loadTimeout' = Fired
  /\ UrlReject(url.pc, Error("Image decode timeout"))
  /\ UNCHANGED <<now, modelsLoaded, parked, body, path, resTimeout, startTime, cfStart,
                 timeoutId, b64Vars>>

\* ----------------------------------------------------- loadImageFromBase64
B64Reject(pc, err) ==
  /\ b64' = [b64 EXCEPT !.pc = pc,
                        !.state = IF @ = "pending" THEN "rejected" ELSE @,
                        !.error = IF b64.state = "pending" THEN err ELSE @]
  /\ IF b64.state = "pending"
     THEN AfterLoad(url.state, "rejected", err)
     ELSE UNCHANGED <<cpc, cf, hpc, res, overallTimeout, detVars>>

\* img.onload: clearTimeout(timeout); resolve(resizeImage(img)).
B64Onload ==
  /\ b64.pc = "decode"
  /\ timeout' = ClearTimeout(timeout)
  /\ b64' = [b64 EXCEPT !.pc = "done",
                        !.state = IF @ = "pending" THEN "fulfilled" ELSE @,
                        !.canvas = IF b64.state = "pending" THEN resizeImage(b64.img) ELSE @]
  /\ IF b64.state = "pending"
     THEN AfterLoad(url.state, "fulfilled", NoError)
     ELSE UNCHANGED <<cpc, cf, hpc, res, overallTimeout, detVars>>
  /\ UNCHANGED <<now, modelsLoaded, parked, body, path, resTimeout, startTime, cfStart, urlVars>>

\* img.onerror: clearTimeout(timeout); reject.
B64Onerror ==
  /\ b64.pc = "decode"
  /\ timeout' = ClearTimeout(timeout)
  /\ B64Reject("done", Error("Invalid base64 image data"))
  /\ UNCHANGED <<now, modelsLoaded, parked, body, path, resTimeout, startTime, cfStart, urlVars>>

\* The decode timer fires: reject; the decode itself is not cancelled.
B64DecodeTimeout ==
  /\ timeout = now
  /\ timeout' = Fired
  /\ B64Reject(b64.pc, Error("Base64 image decode timeout (5s)"))
  /\ UNCHANGED <<now, modelsLoaded, parked, body, path, resTimeout, startTime, cfStart, urlVars>>

\* ---------------------------------------------------------------- detection
\* What follows `await Promise.race([detectionPromise, detectionTimeout])` when
\* both detections have completed with d1 and d2: clearTimeout(overallTimeout),
\* then the no-face outcome or the comparison result.
AfterDetect(d1, d2) ==
  IF cpc # "detecting" \/ "pending" \in {d1, d2}
  THEN UNCHANGED <<cpc, cf, hpc, res, overallTimeout, distance>>
  ELSE /\ cpc' = "done"
       /\ overallTimeout' = ClearTimeout(overallTimeout)
       /\ IF d1 = "none" \/ d2 = "none"
          THEN /\ Settle("resolved", NoError, NoFaceResult(d1, d2, now - cfStart))
               /\ UNCHANGED distance
          ELSE \E d \in SampleDistances :
                 /\ distance' = d
                 /\ Settle("resolved", NoError, CompareResult(d, now - cfStart))

\* One detection task completes, with a face or without.
Detect1 ==
  /\ detection1 = "pending"
  /\ \E d \in {"face", "none"} :
       /\ detection1' = d
       /\ AfterDetect(d, detection2)
  /\ UNCHANGED <<now, modelsLoaded, parked, body, path, resTimeout, startTime, cfStart,
                 urlVars, b64Vars, detection2, detectionTimeout, detectStart>>

Detect2 ==
  /\ detection2 = "pending"
  /\ \E d \in {"face", "none"} :
       /\ detection2' = d
       /\ AfterDetect(detection1, d)
  /\ UNCHANGED <<now, modelsLoaded, parked, body, path, resTimeout, startTime, cfStart,
                 urlVars, b64Vars, detection1, detectionTimeout, detectStart>>

\* A detection task rejects (the model fails): Promise.all and the race reject.
DetectFails ==
  /\ \/ detection1 = "pending" /\ detection1' = "failed" /\ UNCHANGED detection2
     \/ detection2 = "pending" /\ detection2' = "failed" /\ UNCHANGED detection1
  /\ IF cpc = "detecting"
     THEN CompareCatch(Error("face detection failed"))
     ELSE UNCHANGED <<cpc, cf, hpc, res, overallTimeout>>
  /\ UNCHANGED <<now, modelsLoaded, parked, body, path, resTimeout, startTime, cfStart,
                 urlVars, b64Vars, detectionTimeout, detectStart, distance>>

\* The 20 s detection timer fires (it is never cleared): the race rejects if it
\* is still undecided.
DetectionTimeout ==
  /\ detectionTimeout = now
  /\ detectionTimeout' = Fired
  /\ IF cpc = "detecting"
     THEN CompareCatch(Error("Face detection timeout (20s)"))
     ELSE UNCHANGED <<cpc, cf, hpc, res, overallTimeout>>
  /\ UNCHANGED <<now, modelsLoaded, parked, body, path, resTimeout, startTime, cfStart,
                 urlVars, b64Vars, detection1, detection2, detectStart, distance>>

\* ---------------------------------------------------------- overall timer
\* The overall timer firing without rejecting.
OverallTimeoutNoReject ==
  /\ overallTimeout = now
  /\ overallTimeout' = Fired
  /\ UNCHANGED <<now, modelsLoaded, parked, body, path, hpc, res, cf, resTimeout, startTime,
                 cfStart, cpc, urlVars, b64Vars, detVars>>

\* The 25 s timer fires: reject(new Error('Face comparison timeout (25s)')).
\* The async body of compareFaces is not interrupted.
OverallTimeout ==
  /\ overallTimeout = now
  /\ overallTimeout' = Fired
  /\ Settle("rejected", Error("Face comparison timeout (25s)"), NoResult)
  /\ UNCHANGED <<now, modelsLoaded, parked, body, path, resTimeout, startTime, cfStart, cpc,
                 urlVars, b64Vars, detVars>>

\* -------------------------------------------------------------------- time
Timers == {resTimeout, overallTimeout, timeoutId, loadTimeout, timeout, detectionTimeout}

\* The timers of request r.
TimersOf(r) == {r.resTimeout, r.overallTimeout, r.timeoutId, r.loadTimeout, r.timeout,
                r.detectionTimeout}

\* Time advances by one tick unless a timer, of either request, is due.
Tick ==
  /\ now < MaxTime
  /\ now \notin Timers \cup TimersOf(parked.state)
  /\ now' = now + 1
  /\ UNCHANGED <<modelsLoaded, parked, body, hpc, path, res, resTimeout, startTime, cf, cfStart,
                 cpc, overallTimeout, urlVars, b64Vars, detVars>>

Next ==
  \/ LoadModels
  \/ Arrive
  \/ BodyChunk
  \/ BodyParseFails
  \/ RequestTimeout
  \/ HandlerReject
  \/ HandlerCompare
  \/ FetchResponds
  \/ FetchFails
  \/ FetchTimeout
  \/ BodyArrives
  \/ BodyFails
  \/ UrlOnload
  \/ UrlOnerror
  \/ UrlDecodeTimeout
  \/ B64Onload
  \/ B64Onerror
  \/ B64DecodeTimeout
  \/ Detect1
  \/ Detect2
  \/ DetectFails
  \/ DetectionTimeout
  \/ OverallTimeout
  \/ Tick

Spec == Init /\ [][Next]_vars

\* Timers fire when they are due and time goes on.
FairSpec ==
  /\ Spec
  /\ WF_vars(Tick)
  /\ WF_vars(RequestTimeout)
  /\ WF_vars(FetchTimeout)
  /\ WF_vars(UrlDecodeTimeout)
  /\ WF_vars(B64DecodeTimeout)
  /\ WF_vars(DetectionTimeout)
  /\ WF_vars(OverallTimeout)

\* ------------------------------------------- the comparison on a distance grid
\* Both images are acquired, the first detection has returned a face and the
\* second is about to; the two descriptors are at any distance of the grid.
InitGrid ==
  /\ now = 0
  /\ modelsLoaded = TRUE
  /\ body = [imageUrl |-> JsString(HttpPrefix \o <<"a">>),
             base64Image |-> JsString(<<"Q", "Q", "=", "=">>)]
  /\ hpc = "awaiting"
  /\ path = "compare"
  /\ res = [headersSent |-> FALSE, sent |-> <<>>]
  /\ resTimeout = REQUEST_TIMEOUT
  /\ startTime = 0
  /\ cf = [state |-> "pending", error |-> NoError, result |-> NoResult]
  /\ cfStart = 0
  /\ cpc = "detecting"
  /\ overallTimeout = OVERALL_TIMEOUT
  /\ url = [pc |-> "done", state |-> "fulfilled", error |-> NoError,
            img |-> Image(640, 480), canvas |-> resizeImage(Image(640, 480))]
  /\ timeoutId = NoTimer
  /\ loadTimeout = NoTimer
  /\ b64 = [pc |-> "done", state |-> "fulfilled", error |-> NoError,
            img |-> Image(48, 27), canvas |-> resizeImage(Image(48, 27))]
  /\ timeout = NoTimer
  /\ detection1 = "face"
  /\ detection2 = "pending"
  /\ detectionTimeout = DETECTION_TIMEOUT
  /\ detectStart = 0
  /\ distance \in 0..MaxDistance
  /\ parked = [id |-> 2, state |-> NoRequest]

\* The second detection returns a face: steps 3 and 4 of compareFaces run on
\* the distance of the two descriptors.
CompareOnGrid ==
  /\ detection2 = "pending"
  /\ cpc = "detecting"
  /\ detection2' = "face"
  /\ cpc' = "done"
  /\ overallTimeout' = ClearTimeout(overallTimeout)
  /\ Settle("resolved", NoError, CompareResult(distance, now - cfStart))
  /\ UNCHANGED <<now, modelsLoaded, parked, body, path, resTimeout, startTime, cfStart,
                 urlVars, b64Vars, detection1, detectionTimeout, detectStart, distance>>

GridSpec == InitGrid /\ [][CompareOnGrid]_vars

\* ------------------------------------------------- two requests in flight
\* Everything a request works on lives in the scopes of its own calls of the
\* middleware, the handler, compareFaces and the two loaders; Node runs the
\* callbacks of the requests in flight one at a time, in any order.

\* The event loop with the overall timer held in one module-level variable.
SwitchSharedOverallTimer ==
  /\ parked' = [id |-> 3 - parked.id, state |-> Request]
  /\ body' = parked.state.body /\ hpc' = parked.state.hpc
  /\ path' = parked.state.path /\ res' = parked.state.res
  /\ resTimeout' = parked.state.resTimeout /\ startTime' = parked.state.startTime
  /\ cf' = parked.state.cf /\ cfStart' = parked.state.cfStart
  /\ cpc' = parked.state.cpc /\ overallTimeout' = overallTimeout
  /\ url' = parked.state.url /\ timeoutId' = parked.state.timeoutId
  /\ loadTimeout' = parked.state.loadTimeout
  /\ b64' = parked.state.b64 /\ timeout' = parked.state.timeout
  /\ detection1' = parked.state.detection1 /\ detection2' = parked.state.detection2
  /\ detectionTimeout' = parked.state.detectionTimeout
  /\ detectStart' = parked.state.detectStart /\ distance' = parked.state.distance
  /\ UNCHANGED <<now, modelsLoaded>>

\* The event loop turns to a callback of the other request: that request's
\* state is the one the next steps work on.
Switch ==
  /\ parked' = [id |-> 3 - parked.id, state |-> Request]
  /\ body' = parked.state.body /\ hpc' = parked.state.hpc
  /\ path' = parked.state.path /\ res' = parked.state.res
  /\ resTimeout' = parked.state.resTimeout /\ startTime' = parked.state.startTime
  /\ cf' = parked.state.cf /\ cfStart' = parked.state.cfStart
  /\ cpc' = parked.state.cpc /\ overallTimeout' = parked.state.overallTimeout
  /\ url' = parked.state.url /\ timeoutId' = parked.state.timeoutId
  /\ loadTimeout' = parked.state.loadTimeout
  /\ b64' = parked.state.b64 /\ timeout' = parked.state.timeout
  /\ detection1' = parked.state.detection1 /\ detection2' = parked.state.detection2
  /\ detectionTimeout' = parked.state.detectionTimeout
  /\ detectStart' = parked.state.detectStart /\ distance' = parked.state.distance
  /\ UNCHANGED <<now, modelsLoaded>>

\* A request that entered compareFaces at tick entry, whose two images were
\* loaded at tick start, and whose detections are running.
Detecting(entry, start) ==
  [NoRequest EXCEPT
     !.body = [imageUrl |-> JsString(HttpPrefix \o <<"a">>),
               base64Image |-> JsString(<<"Q", "Q", "=", "=">>)],
     !.hpc = "awaiting", !.path = "compare",
     !.resTimeout = entry + REQUEST_TIMEOUT, !.startTime = entry,
     !.cf = [state |-> "pending", error |-> NoError, result |-> NoResult],
     !.cfStart = entry, !.cpc = "detecting",
     !.overallTimeout = entry + OVERALL_TIMEOUT,
     !.url = [Idle EXCEPT !.pc = "done", !.state = "fulfilled",
                          !.img = Image(640, 480),
                          !.canvas = resizeImage(Image(640, 480))],
     !.b64 = [Idle EXCEPT !.pc = "done", !.state = "fulfilled",
                          !.img = Image(48, 27),
                          !.canvas = resizeImage(Image(48, 27))],
     !.detection1 = "pending", !.detection2 = "pending",
     !.detectionTimeout = start + DETECTION_TIMEOUT, !.detectStart = start]

\* Two requests in flight, both detecting: the first entered compareFaces 5 s
\* before the second and took 5 s to load its images.
InitTwo ==
  /\ now = 1
  /\ modelsLoaded = TRUE
  /\ Running(Detecting(0, 1))
  /\ parked = [id |-> 2, state |-> Detecting(1, 1)]

NextTwo ==
  \/ Switch
  \/ Detect1
  \/ Detect2
  \/ DetectFails
  \/ DetectionTimeout
  \/ OverallTimeout
  \/ RequestTimeout
  \/ Tick

TwoSpec == InitTwo /\ [][NextTwo]_vars

\* ------------------------------------------------- resizeImage on a grid
\* compareFaces is loading: the response body has arrived and is being decoded
\* to an image of any width and height of the grid; the base64 image is still
\* being decoded.
InitResize ==
  /\ now = 0
  /\ modelsLoaded = TRUE
  /\ body = [imageUrl |-> JsString(HttpPrefix \o <<"a">>),
             base64Image |-> JsString(<<"Q", "Q", "=", "=">>)]
  /\ hpc = "awaiting"
  /\ path = "compare"
  /\ res = [headersSent |-> FALSE, sent |-> <<>>]
  /\ resTimeout = REQUEST_TIMEOUT
  /\ startTime = 0
  /\ cf = [state |-> "pending", error |-> NoError, result |-> NoResult]
  /\ cfStart = 0
  /\ cpc = "loading"
  /\ overallTimeout = OVERALL_TIMEOUT
  /\ \E w \in 1..MaxSide, h \in 1..MaxSide :
       url = [Idle EXCEPT !.pc = "decode", !.img = Image(w, h)]
  /\ timeoutId = NoTimer
  /\ loadTimeout = DECODE_TIMEOUT
  /\ b64 = [Idle EXCEPT !.pc = "decode", !.img = Image(48, 27)]
  /\ timeout = DECODE_TIMEOUT
  /\ detection1 = "idle"
  /\ detection2 = "idle"
  /\ detectionTimeout = NoTimer
  /\ detectStart = 0
  /\ distance = 0
  /\ parked = [id |-> 2, state |-> NoRequest]

\* The image decodes: img.onload resolves with resizeImage(img).
ResizeSpec == InitResize /\ [][UrlOnload]_vars

TypeOK ==
  /\ now \in 0..MaxTime
  /\ modelsLoaded \in BOOLEAN
  /\ hpc \in {"none", "parsing", "awaiting", "done"}
  /\ path \in {"", "body-parser error", "503", "400 missing", "400 url",
               "TypeError startsWith", "TypeError toLocaleString", "compare"}
  /\ cpc \in {"idle", "loading", "detecting", "done", "caught"}
  /\ cf.state \in {"idle", "pending", "resolved", "rejected"}
  /\ url.state \in {"pending", "fulfilled", "rejected"}
  /\ b64.state \in {"pending", "fulfilled", "rejected"}
  /\ Timers \subseteq (0..(MaxTime + REQUEST_TIMEOUT)) \cup {NoTimer, Fired}

\* =================================================================== claims
Status(i) == res.sent[i].status
PipelineIdle ==
  /\ cf.state = "idle" /\ cpc = "idle"
  /\ url.pc = "idle" /\ b64.pc = "idle"
  /\ detection1 = "idle" /\ detection2 = "idle"
  /\ {overallTimeout, timeoutId, loadTimeout, timeout, detectionTimeout} = {NoTimer}

\* C1 (as stated): while modelsLoaded is false, every request, whatever its
\* body, is answered with 503 and nothing else is attempted for it.
C1_NotReadyAlways503 ==
  (hpc = "done" /\ ~modelsLoaded) =>
    /\ Len(res.sent) = 1 /\ Status(1) = 503
    /\ path = "503" /\ PipelineIdle

\* C1 (amended): while modelsLoaded is false, every request that reaches the
\* handler (express.json accepted its body) takes the 503 branch and nothing
\* else is attempted; its one response is that 503, or the 408 of the
\* connection timeout when that was sent before the handler ran.
C1_NotReady503Or408 ==
  (hpc = "done" /\ ~modelsLoaded /\ path # "body-parser error") =>
    /\ Len(res.sent) = 1 /\ Status(1) \in {503, 408}
    /\ path = "503" /\ PipelineIdle

\* C1 witness: a request with a valid body handled before the models are loaded.
C1_Witness ==
  /\ hpc = "done" /\ ~modelsLoaded
  /\ HandlerPath(TRUE, body) = "compare"
  /\ Len(res.sent) = 1 /\ Status(1) = 503

AbsentOrEmpty(v) == v.type = "undefined" \/ (v.type = "string" /\ v.chars = <<>>)
BeginsWithScheme(v) ==
  v.type = "string" /\ (StartsWith(v.chars, HttpPrefix) \/ StartsWith(v.chars, HttpsPrefix))

\* C2: with the model ready, a body whose imageUrl or base64Image is absent or
\* empty, or whose imageUrl does not begin with http:// or https://, is answered
\* with 400 and compareFaces is not invoked.
C2_InvalidBody400 ==
  ( /\ hpc = "done" /\ path \notin {"", "body-parser error", "503"}
    /\ \/ AbsentOrEmpty(body.imageUrl)
       \/ AbsentOrEmpty(body.base64Image)
       \/ ~BeginsWithScheme(body.imageUrl) ) =>
    /\ Len(res.sent) = 1 /\ Status(1) = 400
    /\ cf.state = "idle"

SameOutcomeFields(payload, result) ==
  /\ DOMAIN payload = DOMAIN result
  /\ \A f \in DOMAIN result \ {"processingTimeMs"} : payload[f] = result[f]

\* C3 (as stated): the response is 200 with the outcome when compareFaces
\* resolves, and 500 with the error's message when it rejects.
C3_StatusFollowsSettle ==
  /\ cf.state = "resolved" =>
       /\ Len(res.sent) = 1 /\ Status(1) = 200
       /\ SameOutcomeFields(res.sent[1].body, cf.result)
  /\ cf.state = "rejected" =>
       /\ Len(res.sent) = 1 /\ Status(1) = 500
       /\ res.sent[1].body.message = cf.error
       /\ "processingTimeMs" \in DOMAIN res.sent[1].body

\* C3 (amended): the same, unless the connection timeout had answered 408
\* before the handler ran; then there is no further response.  The socket timer
\* restarts when the body is complete and stays armed while the handler awaits
\* compareFaces, so no 408 is sent during the comparison.
C3_StatusFollowsSettleUnless408 ==
  /\ cf.state = "resolved" =>
       /\ Len(res.sent) = 1
       /\ \/ Status(1) = 408
          \/ Status(1) = 200 /\ SameOutcomeFields(res.sent[1].body, cf.result)
  /\ cf.state = "rejected" =>
       /\ Len(res.sent) = 1
       /\ \/ Status(1) = 408
          \/ /\ Status(1) = 500
             /\ res.sent[1].body.message = cf.error
             /\ "processingTimeMs" \in DOMAIN res.sent[1].body
  /\ hpc = "awaiting" => resTimeout >= now /\ cf.state = "pending"

\* C3 witness: a detection timeout surfaced as a 500 carrying its message.
C3_Witness ==
  /\ cf.state = "rejected" /\ cf.error = Error("Face detection timeout (20s)")
  /\ Len(res.sent) = 1 /\ Status(1) = 500
  /\ res.sent[1].body.message = cf.error

NoFaceMessage ==
  IF detection1 = "none" /\ detection2 = "none" THEN "No faces detected in both images"
  ELSE IF detection1 = "none" THEN "No face detected in URL image"
  ELSE "No face detected in uploaded image"

IsNoFaceOutcome ==
  /\ cf.state = "resolved"
  /\ cf.result.success = FALSE /\ cf.result.match = FALSE
  /\ "distance" \notin DOMAIN cf.result
  /\ cf.result.message = NoFaceMessage

BothAcquired == url.state = "fulfilled" /\ b64.state = "fulfilled"
DetectionsComplete == {detection1, detection2} \subseteq {"face", "none"}

\* C4 (as stated): both images acquired and detection complete (the race with
\* the detection timer is won) with a detection empty: compareFaces resolves
\* with the no-face outcome naming the side.
C4_NoFaceResolves ==
  (cpc = "done" /\ "none" \in {detection1, detection2}) =>
    BothAcquired /\ DetectionsComplete /\ IsNoFaceOutcome

\* C4 (amended): the same, unless the 25 s overall timer has fired before the
\* detections complete: compareFaces is then rejected with the comparison
\* timeout and stays so.
C4_NoFaceResolvesInTime ==
  (cpc = "done" /\ "none" \in {detection1, detection2}) =>
    /\ BothAcquired /\ DetectionsComplete
    /\ \/ IsNoFaceOutcome /\ overallTimeout # Fired
       \/ /\ overallTimeout = Fired /\ cf.state = "rejected"
          /\ cf.error = Error("Face comparison timeout (25s)")

\* C4 witness: only the uploaded image lacks a face.
C4_Witness ==
  /\ cpc = "done" /\ detection1 = "face" /\ detection2 = "none"
  /\ IsNoFaceOutcome
  /\ cf.result.message = "No face detected in uploaded image"

\* C5: at most one response is sent for a request.
C5_AtMostOneResponse == Len(res.sent) <= 1

\* C5 witness: the 408 was sent first, and the handler's success path ran later.
C5_Witness ==
  /\ Len(res.sent) = 1 /\ Status(1) = 408
  /\ cf.state = "resolved" /\ hpc = "done"

\* C6: compareFaces is settled no later than 25 s after entry, and it settles;
\* so a request awaiting it is answered.
C6_SettlesWithin25s ==
  /\ [](cf.state = "pending" => now <= cfStart + (25000 \div MsPerTick))
  /\ (cf.state = "pending") ~> (cf.state \in {"resolved", "rejected"})
  /\ (hpc = "awaiting") ~> (hpc = "done" /\ res.headersSent)

\* C6 witness: the response body never finishes, and the overall timer settles.
C6_Witness ==
  /\ url.pc = "body" /\ overallTimeout = Fired
  /\ cf.state = "rejected" /\ now = cfStart + (25000 \div MsPerTick)
  /\ res.headersSent

\* C7: once the overall timer has fired, the outcome is the comparison timeout,
\* whatever arrives later.
C7_TimeoutOutcomeStands ==
  overallTimeout = Fired =>
    cf.state = "rejected" /\ cf.error = Error("Face comparison timeout (25s)")

\* C7 witness: a match result arrived after the overall timer had fired.
C7_Witness ==
  /\ overallTimeout = Fired /\ cpc = "done"
  /\ detection1 = "face" /\ detection2 = "face"
  /\ cf.error = Error("Face comparison timeout (25s)")

\* C8: 15 s after the fetch started, the fetch is over: the headers and the
\* whole body have been received, or loadImageFromUrl has failed.
C8_FetchDeadlineCoversBody ==
  (path = "compare" /\ now > cfStart + (15000 \div MsPerTick)) =>
    url.pc \notin {"fetch", "body"}

\* C9: when exactly one acquisition has failed, compareFaces is rejected with
\* that acquisition's error.
C9_FailingSourceError ==
  /\ (url.state = "rejected" /\ b64.state # "rejected") =>
       cf.state = "rejected" /\ cf.error = url.error
  /\ (b64.state = "rejected" /\ url.state # "rejected") =>
       cf.state = "rejected" /\ cf.error = b64.error

\* clamp(0, 100, (1 - d) * 100) in 1e-3 units, for d >= 0 in 1e-5 units:
\* (1 - d / 1e5) * 100 * 1e3 = 1e5 - d.
ClampedSimilarity(d) == IF d >= 100000 THEN 0 ELSE 100000 - d

MatchAndConfidence ==
  /\ cf.result.match = (distance < 50000)
  /\ (cf.result.confidence = "high") = cf.result.match
  /\ (cf.result.confidence = "medium") = (50000 <= distance /\ distance < 70000)
  /\ (cf.result.confidence = "low") = (distance >= 70000)
  /\ distance = 32000 =>
       cf.result.match /\ cf.result.similarity = 6800 /\ cf.result.confidence = "high"

\* C10 (as stated): the result's similarity is clamp(0, 100, (1 - d) * 100),
\* match is d < 0.5, and confidence follows d.
C10_ResultFormulas ==
  (cf.state = "resolved" /\ cf.result.success) =>
    /\ cf.result.similarity * 10 = ClampedSimilarity(distance)
    /\ MatchAndConfidence

\* C10 (amended): the result's similarity is clamp(0, 100, (1 - d) * 100)
\* rounded to two decimals (within 0.005 of it).
C10_ResultFormulasRounded ==
  (cf.state = "resolved" /\ cf.result.success) =>
    /\ cf.result.similarity * 10 - ClampedSimilarity(distance) \in (0 - 5)..5
    /\ MatchAndConfidence

\* C10 witness: the comparison at d = 0.32.
C10_Witness ==
  /\ cf.state = "resolved" /\ cf.result.success
  /\ distance = 32000 /\ cf.result.similarity = 6800

\* The image loadImageFromUrl resolved with, and the image it was decoded to.
UrlResized == url.pc = "done" /\ url.state = "fulfilled"

\* C11: resizeImage never increases a dimension: the output is at most as wide
\* and at most as high as the decoded image.
C11_NeverUpscales ==
  UrlResized =>
    /\ url.canvas.width <= url.img.width
    /\ url.canvas.height <= url.img.height

\* C12: both output dimensions are at most 416, and they are the floors of
\* the input dimensions multiplied by one common factor s: the intervals of s
\* with floor(width * s) = canvas.width and floor(height * s) = canvas.height
\* have a common point.
C12_CommonScaleWithin416 ==
  UrlResized =>
    /\ url.canvas.width <= 416 /\ url.canvas.height <= 416
    /\ url.canvas.width * url.img.height < (url.canvas.height + 1) * url.img.width
    /\ url.canvas.height * url.img.width < (url.canvas.width + 1) * url.img.height

Settled == cf.state \in {"resolved", "rejected"}

\* C13: once compareFaces has settled, none of its timers is still pending:
\* the fetch timer, the two decode timers, the detection timer and the overall
\* timer have each fired or been cleared.
C13_NoTimerPendingOnceSettled ==
  Settled =>
    {timeoutId, loadTimeout, timeout, detectionTimeout, overallTimeout}
      \subseteq {NoTimer, Fired}

\* The detection timer fired while the race was undecided.
DetectionTimedOut ==
  detectionTimeout = Fired /\ cpc = "caught" /\ "failed" \notin {detection1, detection2}

\* C14 (as stated): a detection that completes within 20 s of its start yields
\* its result as the outcome, whatever time the acquisition took, and one that
\* has not completed by then yields 'Face detection timeout (20s)'.
C14_DetectionOwnBudget ==
  /\ cpc = "done" => cf.state = "resolved"
  /\ DetectionTimedOut =>
       cf.state = "rejected" /\ cf.error = Error("Face detection timeout (20s)")

RejectedByOverallTimer ==
  /\ overallTimeout = Fired /\ cf.state = "rejected"
  /\ cf.error = Error("Face comparison timeout (25s)")

\* C14 (amended): the detection timer runs 20 s from the start of detection,
\* whatever time the acquisition took, and the race is decided by then; the
\* result of the race is the outcome unless the 25 s overall timer, which runs
\* from the entry of compareFaces, has fired before: then the outcome is the
\* comparison timeout.
C14_DetectionBudgetUnderOverall ==
  /\ cpc = "detecting" =>
       /\ detectionTimeout = detectStart + (20000 \div MsPerTick)
       /\ now <= detectStart + (20000 \div MsPerTick)
  /\ cpc = "done" =>
       \/ /\ overallTimeout # Fired /\ cf.state = "resolved"
          /\ cf.result.success = ({detection1, detection2} = {"face"})
       \/ RejectedByOverallTimer
  /\ DetectionTimedOut =>
       \/ /\ overallTimeout # Fired /\ cf.state = "rejected"
          /\ cf.error = Error("Face detection timeout (20s)")
       \/ RejectedByOverallTimer

\* C14 witness: the acquisition took 10 s, the detection took 15 s or less, and
\* its result is the outcome.
C14_Witness ==
  /\ detectStart = cfStart + 2 /\ cpc = "done"
  /\ cf.state = "resolved" /\ cf.result.success
  /\ overallTimeout # Fired

\* C15: after the overall timer has fired the pipeline short-circuits: the
\* body of compareFaces waits for nothing more and takes no further step, so no
\* detection is started and no late result is processed.
C15_ShortCircuitsAfterOverallTimer ==
  [][overallTimeout = Fired =>
       /\ cpc' = cpc
       /\ <<detection1, detection2, detectStart, distance>>' =
            <<detection1, detection2, detectStart, distance>>]_vars

\* C16: detection starts only after both acquisitions have succeeded: while
\* one is pending, or once one has failed, no detection is or gets started.
C16_DetectionAfterBothAcquired ==
  /\ [](( \/ cpc \in {"detecting", "done"}
          \/ detection1 # "idle" \/ detection2 # "idle"
          \/ detectionTimeout # NoTimer ) => BothAcquired)
  /\ [][(detection1 = "idle" /\ detection1' # "idle") \/
        (detection2 = "idle" /\ detection2' # "idle") =>
          /\ url'.state = "fulfilled" /\ b64'.state = "fulfilled"
          /\ detection1' = "pending" /\ detection2' = "pending"
          /\ detectStart' = now]_vars

\* C16 witness: detection running, 10 s after entry, on two acquired images.
C16_Witness ==
  /\ cpc = "detecting" /\ detection1 = "pending" /\ detection2 = "pending"
  /\ BothAcquired /\ detectStart = cfStart + 2

\* C17: on both paths a decode is over 5 s after it started; if the timer
\* fired the acquisition failed with the decode-timeout error, if the decoder
\* signalled an error, with the decode error; and a settled acquisition promise
\* never changes, whatever callback arrives later.
C17_DecodeSettlesOnce ==
  /\ []( /\ (url.pc = "decode" /\ url.state = "pending") =>
              loadTimeout \in now..(now + (5000 \div MsPerTick))
         /\ (b64.pc = "decode" /\ b64.state = "pending") =>
              timeout \in now..(now + (5000 \div MsPerTick))
         /\ loadTimeout = Fired =>
              url.state = "rejected" /\ url.error = Error("Image decode timeout")
         /\ timeout = Fired =>
              /\ b64.state = "rejected"
              /\ b64.error = Error("Base64 image decode timeout (5s)")
         /\ (url.pc = "done" /\ url.state = "rejected" /\ loadTimeout # Fired) =>
              url.error = Error("Failed to decode URL image")
         /\ (b64.pc = "done" /\ b64.state = "rejected" /\ timeout # Fired) =>
              b64.error = Error("Invalid base64 image data") )
  /\ [][ /\ url.state # "pending" =>
              <<url.state, url.error, url.canvas>>' = <<url.state, url.error, url.canvas>>
         /\ b64.state # "pending" =>
              <<b64.state, b64.error, b64.canvas>>' = <<b64.state, b64.error, b64.canvas>>
       ]_vars

\* C17 witness: the URL image's onload arrived after its decode timer fired.
C17_Witness ==
  /\ loadTimeout = Fired /\ url.pc = "done"
  /\ url.state = "rejected" /\ url.error = Error("Image decode timeout")

\* C18: in a definitive result the reported fields agree: match is true
\* exactly when the reported distance is below the reported threshold, and
\* confidence is 'high' exactly then.  (distance is in 1e-4 units, threshold in
\* 1e-5 units.)
C18_ReportedFieldsConsistent ==
  (cf.state = "resolved" /\ cf.result.success) =>
    /\ cf.result.match = (cf.result.distance * 10 < cf.result.threshold)
    /\ (cf.result.confidence = "high") = (cf.result.distance * 10 < cf.result.threshold)

Sent408 == \E i \in 1..Len(res.sent) : Status(i) = 408

\* C20: a handler that starts before the connection timer has answered sends
\* its own response (503, 400, 200 or 500) before that timer fires: while it
\* awaits compareFaces the timer is armed and not due, and a 408 is only ever
\* sent while the body is still being read.
C20_No408OnceHandlerStarted ==
  /\ [](hpc = "awaiting" => resTimeout > now)
  /\ []((hpc = "done" /\ ~Sent408 /\ path # "body-parser error") =>
          Len(res.sent) = 1 /\ Status(1) \in {503, 400, 200, 500})
  /\ [][(~Sent408 /\ Sent408') => (hpc = "parsing" /\ hpc' = "parsing")]_vars

\* C20 witness: compareFaces took its full 25 s, the 500 was sent, and the
\* connection timer is still 5 s away.
C20_Witness ==
  /\ hpc = "done" /\ RejectedByOverallTimer
  /\ Len(res.sent) = 1 /\ Status(1) = 500
  /\ now = startTime + 5 /\ resTimeout = now + 1

\* What compareFaces made of request r follows from r's own detections and
\* timers, and r's response from that outcome.
OwnOutcome(r) ==
  /\ r.cf.state = "pending" =>
       /\ r.cpc = "detecting" /\ r.hpc = "awaiting" /\ r.res.sent = <<>>
       /\ r.overallTimeout >= now /\ r.detectionTimeout >= now
  /\ r.cf.state = "resolved" =>
       /\ r.overallTimeout = NoTimer
       /\ {r.detection1, r.detection2} \subseteq {"face", "none"}
       /\ \E t \in 0..MaxTime :
            r.cf.result =
              IF "none" \in {r.detection1, r.detection2}
              THEN NoFaceResult(r.detection1, r.detection2, t)
              ELSE CompareResult(r.distance, t)
       /\ Len(r.res.sent) = 1 /\ r.res.sent[1].status = 200
       /\ SameOutcomeFields(r.res.sent[1].body, r.cf.result)
  /\ r.cf.state = "rejected" =>
       /\ \/ /\ r.cf.error = Error("Face comparison timeout (25s)")
             /\ r.overallTimeout = Fired
          \/ /\ r.cf.error = Error("Face detection timeout (20s)")
             /\ r.detectionTimeout = Fired /\ r.overallTimeout = NoTimer
          \/ /\ r.cf.error = Error("face detection failed")
             /\ "failed" \in {r.detection1, r.detection2}
             /\ r.overallTimeout = NoTimer
       /\ Len(r.res.sent) = 1 /\ r.res.sent[1].status = 500
       /\ r.res.sent[1].body.message = r.cf.error

\* C19: two requests in flight are independent: the outcome of each follows
\* from its own detections and timers; a step of one request leaves all state
\* of the other as it is; turning from one request to the other changes
\* nothing; and modelsLoaded is not written.
C19_RequestsIndependent ==
  /\ [](OwnOutcome(Request) /\ OwnOutcome(parked.state))
  /\ [][ /\ modelsLoaded' = modelsLoaded
         /\ parked'.id = parked.id => parked' = parked
         /\ parked'.id # parked.id =>
              /\ parked'.state = Request /\ Request' = parked.state
              /\ now' = now ]_vars

\* C19 witness: one request has run into its comparison timeout, the other has
\* resolved with a match.
C19_Witness ==
  /\ parked.state.cf.state = "rejected"
  /\ parked.state.cf.error = Error("Face comparison timeout (25s)")
  /\ cf.state = "resolved" /\ cf.result.success /\ cf.result.match
====
